---- MODULE Spec2Model ----
(***************************************************************************)
(* Model of the to-do list backend: the process lifecycle (lifespan), the   *)
(* HTTP route handlers of backend/src/server.py and the data access layer   *)
(* (module dal, imported by server.py) they call, over a document store     *)
(* holding one document per to-do list.                                     *)
(***************************************************************************)
EXTENDS Integers, Sequences, FiniteSets, TLC

\* ------------------------------------------------------------------ bounds
MaxLists == 2       \* list ids the store hands out: 1..MaxLists
MaxItems == 3       \* item ids the DAL hands out: 1..MaxItems
ConcLists == 1      \* list ids handed out in the concurrent specification
ConcItems == 2      \* item ids handed out in the concurrent specification

Names == {"Groceries", "Chores"}
Labels == {"Milk"}
PongValues == {0, 1}            \* int(pong["ok"]) of the ping reply

ListIds == 1..MaxLists
ItemIds == 1..MaxItems
Clients == {1, 2}

VARIABLES
    phase,        \* lifespan position: "created", "pinging", "serving", "aborted", "stopped"
    client,       \* the AsyncIOMotorClient: "none", "open", "closed"
    dal_set,      \* app.todo_dal has been assigned
    pong,         \* the ping reply's ok seen by lifespan: -1 (none yet), 0, 1
    served,       \* some request handler has run
    store,        \* the todo_lists collection: list id -> document
    nextListId,   \* next _id the store generates
    nextItemId,   \* next item id the DAL generates
    inflight,     \* client -> the request whose handler awaits the DAL (or NoReq)
    last,         \* the last completed request: request, store before it, response
    untouched,    \* list id -> name answered by POST /api/lists, no operation on it since ("" otherwise)
    hist          \* the last completed request and the store before it (concurrent specification)

vars == <<phase, client, dal_set, pong, served, store, nextListId, nextItemId,
          inflight, last, untouched, hist>>

\* ---------------------------------------------------------------- requests
Req(op, l, i, t, f) == [op |-> op, list_id |-> l, item_id |-> i, text |-> t, flag |-> f]
NoReq == Req("none", 0, 0, "", FALSE)

Requests ==
    {Req("get_all_lists", 0, 0, "", FALSE)}
    \cup {Req("create_todo_list", 0, 0, n, FALSE) : n \in Names}
    \cup {Req("get_list", l, 0, "", FALSE) : l \in ListIds}
    \cup {Req("delete_list", l, 0, "", FALSE) : l \in ListIds}
    \cup {Req("create_todo_item", l, 0, s, FALSE) : l \in ListIds, s \in Labels}
    \cup {Req("delete_item", l, i, "", FALSE) : l \in ListIds, i \in ItemIds}
    \cup {Req("set_checked_state", l, i, "", b) : l \in ListIds, i \in ItemIds, b \in BOOLEAN}

\* ------------------------------------------------------------ the documents
NoDoc == [exists |-> FALSE, name |-> "", items |-> <<>>]
Doc(name, items) == [exists |-> TRUE, name |-> name, items |-> items]
Item(id, label, checked) == [id |-> id, label |-> label, checked |-> checked]

HasItem(items, id) == \E k \in 1..Len(items) : items[k].id = id

\* $pull: the items whose id is not `id`, in their order
RECURSIVE Pull(_, _)
Pull(items, id) ==
    IF items = <<>> THEN <<>>
    ELSE IF Head(items).id = id THEN Pull(Tail(items), id)
    ELSE <<Head(items)>> \o Pull(Tail(items), id)

\* $set items.$.checked on the first item matching the filter
SetChecked(items, id, checked) ==
    LET first == CHOOSE k \in 1..Len(items) :
                    /\ items[k].id = id
                    /\ \A j \in 1..(k - 1) : items[j].id # id
    IN  [items EXCEPT ![first].checked = checked]

\* ---------------------------------------------------------------- results
None == [kind |-> "none"]
ToDoList(id, doc) == [kind |-> "list", id |-> id, name |-> doc.name, items |-> doc.items]
ListSummary(id, doc) == [id |-> id, name |-> doc.name, item_count |-> Len(doc.items)]

RECURSIVE Summaries(_, _)
Summaries(s, from) ==
    IF from > MaxLists THEN <<>>
    ELSE IF s[from].exists THEN <<ListSummary(from, s[from])>> \o Summaries(s, from + 1)
    ELSE Summaries(s, from + 1)

\* What a DAL call leaves: the store, the id counters, and what it returns or raises.
Out(s, nl, ni, raised, result) ==
    [store |-> s, nextListId |-> nl, nextItemId |-> ni, raised |-> raised, result |-> result]


\* ------------------------------------------------- the data access layer
\* list_todo_lists(): one ListSummary per stored list
ToDoDAL_list_todo_lists(s, nl, ni) ==
    Out(s, nl, ni, FALSE, [kind |-> "summaries", lists |-> Summaries(s, 1)])

\* create_todo_list(name): insert {name, items: []}, return the generated id
ToDoDAL_create_todo_list(s, nl, ni, name) ==
    Out([s EXCEPT ![nl] = Doc(name, <<>>)], nl + 1, ni, FALSE, [kind |-> "id", value |-> nl])

\* get_todo_list(id): the full list, or fails with NotFound
ToDoDAL_get_todo_list(s, nl, ni, id) ==
    IF s[id].exists
    THEN Out(s, nl, ni, FALSE, ToDoList(id, s[id]))
    ELSE Out(s, nl, ni, TRUE, [kind |-> "raise", exc |-> "NotFound"])

\* delete_todo_list(id): remove the document; whether one was deleted
ToDoDAL_delete_todo_list(s, nl, ni, id) ==
    Out([s EXCEPT ![id] = NoDoc], nl, ni, FALSE, [kind |-> "bool", value |-> s[id].exists])

\* create_item(list_id, label): one atomic $push on the document matching list_id
ToDoDAL_create_item(s, nl, ni, id, label) ==
    IF s[id].exists
    THEN LET doc == Doc(s[id].name, Append(s[id].items, Item(ni, label, FALSE)))
         IN  Out([s EXCEPT ![id] = doc], nl, ni + 1, FALSE, ToDoList(id, doc))
    ELSE Out(s, nl, ni, FALSE, None)

\* delete_item(list_id, item_id): one atomic $pull; not-found if list or item is absent
ToDoDAL_delete_item(s, nl, ni, id, item_id) ==
    IF s[id].exists /\ HasItem(s[id].items, item_id)
    THEN LET doc == Doc(s[id].name, Pull(s[id].items, item_id))
         IN  Out([s EXCEPT ![id] = doc], nl, ni, FALSE, ToDoList(id, doc))
    ELSE Out(s, nl, ni, FALSE, None)

\* set_checked_state(list_id, item_id, checked): one atomic $set; not-found if either is absent
ToDoDAL_set_checked_state(s, nl, ni, id, item_id, checked) ==
    IF s[id].exists /\ HasItem(s[id].items, item_id)
    THEN LET doc == Doc(s[id].name, SetChecked(s[id].items, item_id, checked))
         IN  Out([s EXCEPT ![id] = doc], nl, ni, FALSE, ToDoList(id, doc))
    ELSE Out(s, nl, ni, FALSE, None)

\* --------------------------------------------------------- the HTTP routes
\* A handler that returns: the declared status code with the returned value as body.
\* An exception that is no HTTPException leaves the handler unhandled: 500.
Respond(out, status, body) ==
    IF out.raised
    THEN [out |-> out, status |-> 500, body |-> [kind |-> "server_error"]]
    ELSE [out |-> out, status |-> status, body |-> body]

HTTPException(out, status, detail) ==
    [out |-> out, status |-> status, body |-> [kind |-> "detail", detail |-> detail]]

\* GET /api/lists
get_all_lists(req, s, nl, ni) ==
    LET r == ToDoDAL_list_todo_lists(s, nl, ni)
    IN  Respond(r, 200, r.result)

\* POST /api/lists, with the name sent in place of the request's
create_todo_list_fixed_name(req, s, nl, ni) ==
    LET r == ToDoDAL_create_todo_list(s, nl, ni, "Groceries")
    IN  Respond(r, 201, [kind |-> "new_list", id |-> r.result.value, name |-> req.text])

\* POST /api/lists
create_todo_list(req, s, nl, ni) ==
    LET r == ToDoDAL_create_todo_list(s, nl, ni, req.text)
    IN  Respond(r, 201, [kind |-> "new_list", id |-> r.result.value, name |-> req.text])

\* GET /api/lists/{list_id}
get_list(req, s, nl, ni) ==
    LET r == ToDoDAL_get_todo_list(s, nl, ni, req.list_id)
    IN  Respond(r, 200, r.result)

\* DELETE /api/lists/{list_id}, answering 404 when nothing was deleted
delete_list_404(req, s, nl, ni) ==
    LET r == ToDoDAL_delete_todo_list(s, nl, ni, req.list_id)
    IN  IF r.result.value
        THEN Respond(r, 200, [kind |-> "dict", success |-> r.result.value])
        ELSE HTTPException(r, 404, "List not found")

\* DELETE /api/lists/{list_id}
delete_list(req, s, nl, ni) ==
    LET r == ToDoDAL_delete_todo_list(s, nl, ni, req.list_id)
    IN  Respond(r, 200, [kind |-> "dict", success |-> r.result.value])

\* POST /api/lists/{list_id}/items, without the None check
create_todo_item_unchecked(req, s, nl, ni) ==
    LET item == ToDoDAL_create_item(s, nl, ni, req.list_id, req.text)
    IN  Respond(item, 201, item.result)

\* POST /api/lists/{list_id}/items, with the label dropped
create_todo_item_no_label(req, s, nl, ni) ==
    LET item == ToDoDAL_create_item(s, nl, ni, req.list_id, "")
    IN  IF item.result.kind = "none"
        THEN HTTPException(item, 404, "List not found")
        ELSE Respond(item, 201, item.result)

\* POST /api/lists/{list_id}/items
create_todo_item(req, s, nl, ni) ==
    LET item == ToDoDAL_create_item(s, nl, ni, req.list_id, req.text)
    IN  IF item.result.kind = "none"
        THEN HTTPException(item, 404, "List not found")
        ELSE Respond(item, 201, item.result)

\* DELETE /api/lists/{list_id}/items/{item_id}, without the None check
delete_item_unchecked(req, s, nl, ni) ==
    LET todo_list == ToDoDAL_delete_item(s, nl, ni, req.list_id, req.item_id)
    IN  Respond(todo_list, 200, todo_list.result)

\* DELETE /api/lists/{list_id}/items/{item_id}, with the two ids swapped in the DAL call
delete_item_swapped(req, s, nl, ni) ==
    LET todo_list == IF req.item_id \in ListIds
                     THEN ToDoDAL_delete_item(s, nl, ni, req.item_id, req.list_id)
                     ELSE Out(s, nl, ni, FALSE, None)
    IN  IF todo_list.result.kind = "none"
        THEN HTTPException(todo_list, 404, "Item not found")
        ELSE Respond(todo_list, 200, todo_list.result)

\* DELETE /api/lists/{list_id}/items/{item_id}
delete_item(req, s, nl, ni) ==
    LET todo_list == ToDoDAL_delete_item(s, nl, ni, req.list_id, req.item_id)
    IN  IF todo_list.result.kind = "none"
        THEN HTTPException(todo_list, 404, "Item not found")
        ELSE Respond(todo_list, 200, todo_list.result)

\* PATCH /api/lists/{list_id}/checked_state, without the None check
set_checked_state_unchecked(req, s, nl, ni) ==
    LET todo_list == ToDoDAL_set_checked_state(s, nl, ni, req.list_id, req.item_id, req.flag)
    IN  Respond(todo_list, 200, todo_list.result)

\* PATCH /api/lists/{list_id}/checked_state, always checking the item
set_checked_state_always(req, s, nl, ni) ==
    LET todo_list == ToDoDAL_set_checked_state(s, nl, ni, req.list_id, req.item_id, TRUE)
    IN  IF todo_list.result.kind = "none"
        THEN HTTPException(todo_list, 404, "Item not found")
        ELSE Respond(todo_list, 200, todo_list.result)

\* PATCH /api/lists/{list_id}/checked_state
set_checked_state(req, s, nl, ni) ==
    LET todo_list == ToDoDAL_set_checked_state(s, nl, ni, req.list_id, req.item_id, req.flag)
    IN  IF todo_list.result.kind = "none"
        THEN HTTPException(todo_list, 404, "Item not found")
        ELSE Respond(todo_list, 200, todo_list.result)

\* The route table: the handler the path and verb of `req` select.
Route(req, s, nl, ni) ==
    CASE req.op = "get_all_lists" -> get_all_lists(req, s, nl, ni)
      [] req.op = "create_todo_list" -> create_todo_list(req, s, nl, ni)
      [] req.op = "get_list" -> get_list(req, s, nl, ni)
      [] req.op = "delete_list" -> delete_list(req, s, nl, ni)
      [] req.op = "create_todo_item" -> create_todo_item(req, s, nl, ni)
      [] req.op = "delete_item" -> delete_item(req, s, nl, ni)
      [] req.op = "set_checked_state" -> set_checked_state(req, s, nl, ni)


\* ------------------------------------------------------------- lifecycle
NoEntry == [c |-> 0, req |-> NoReq, newId |-> 0, overlap |-> FALSE, prevOp |-> "none"]

EmptyStore == [l \in ListIds |-> NoDoc]

Init ==
    /\ phase = "created"
    /\ client = "none"
    /\ dal_set = FALSE
    /\ pong = -1
    /\ served = FALSE
    /\ store = EmptyStore
    /\ nextListId = 1
    /\ nextItemId = 1
    /\ inflight = [c \in Clients |-> NoReq]
    /\ last = [req |-> NoReq, pre |-> EmptyStore, status |-> 0, body |-> None]
    /\ untouched = [l \in ListIds |-> ""]
    /\ hist = [pre |-> EmptyStore, e |-> NoEntry]

\* lifespan, with the ping reply not looked at
PingOkAny(ok) == TRUE

\* lifespan: int(pong["ok"]) != 1 raises RuntimeError
PingOk(ok) == ok = 1

\* lifespan up to its first await: the client is made and the ping is sent
Startup ==
    /\ phase = "created"
    /\ client' = "open"
    /\ phase' = "pinging"
    /\ UNCHANGED <<dal_set, pong, served, store, nextListId, nextItemId,
                   inflight, last, untouched, hist>>

\* lifespan from the ping's reply to its yield: abort, or set app.todo_dal and serve
PingReply(ok) ==
    /\ phase = "pinging"
    /\ pong' = ok
    /\ IF PingOk(ok)
       THEN dal_set' = TRUE /\ phase' = "serving"
       ELSE dal_set' = dal_set /\ phase' = "aborted"
    /\ UNCHANGED <<client, served, store, nextListId, nextItemId,
                   inflight, last, untouched, hist>>

\* lifespan after its yield, once the server has drained its requests: client.close()
Shutdown ==
    /\ phase = "serving"
    /\ \A c \in Clients : inflight[c] = NoReq
    /\ client' = "closed"
    /\ phase' = "stopped"
    /\ UNCHANGED <<dal_set, pong, served, store, nextListId, nextItemId,
                   inflight, last, untouched, hist>>

\* -------------------------------------------------------------- requests
Pending(op) == Cardinality({c \in Clients : inflight[c].op = op})

\* The id counters are capped: no creation is accepted that would pass the cap.
Accepts(req, listCap, itemCap) ==
    /\ req.op = "create_todo_list" => nextListId + Pending("create_todo_list") <= listCap
    /\ req.op = "create_todo_item" => nextItemId + Pending("create_todo_item") <= itemCap

Touches(req) == req.op \in {"delete_list", "create_todo_item", "delete_item", "set_checked_state"}

\* One request, alone in the server: routed to its handler, which makes its DAL
\* call and answers. Kept: the request, the store before it, the response.
Serve(req) ==
    LET r == Route(req, store, nextListId, nextItemId)
    IN  /\ phase = "serving"
        /\ Accepts(req, MaxLists, MaxItems)
        /\ served' = TRUE
        /\ store' = r.out.store
        /\ nextListId' = r.out.nextListId
        /\ nextItemId' = r.out.nextItemId
        /\ last' = [req |-> req, pre |-> store, status |-> r.status, body |-> r.body]
        /\ untouched' =
             IF req.op = "create_todo_list" /\ r.status = 201 /\ r.body.id \in ListIds
             THEN [untouched EXCEPT ![r.body.id] = req.text]
             ELSE IF Touches(req) THEN [untouched EXCEPT ![req.list_id] = ""]
             ELSE untouched
        /\ UNCHANGED <<phase, client, dal_set, pong, inflight, hist>>

\* A request is routed to its handler, which runs to the await of its DAL call,
\* while another client's handler may be suspended at its own.
Receive(c, req) ==
    /\ phase = "serving"
    /\ inflight[c] = NoReq
    /\ Accepts(req, ConcLists, ConcItems)
    /\ inflight' = [inflight EXCEPT ![c] = req]
    /\ served' = TRUE
    /\ UNCHANGED <<phase, client, dal_set, pong, store, nextListId, nextItemId,
                   last, untouched, hist>>

\* The same, with the request kept in one place shared by all handlers: a handler
\* that resumes while another request is in flight makes its DAL call for that one.
CompleteShared(c) ==
    LET req == inflight[c]
        other == {d \in Clients \ {c} : inflight[d] # NoReq}
        used == IF other = {} THEN req ELSE inflight[CHOOSE d \in other : TRUE]
        r == Route(used, store, nextListId, nextItemId)
    IN  /\ phase = "serving"
        /\ req # NoReq
        /\ store' = r.out.store
        /\ nextListId' = r.out.nextListId
        /\ nextItemId' = r.out.nextItemId
        /\ inflight' = [inflight EXCEPT ![c] = NoReq]
        /\ hist' = [pre |-> store,
                    e |-> [c |-> c, req |-> req, newId |-> nextItemId,
                           overlap |-> \E d \in Clients \ {c} : inflight[d] # NoReq,
                           prevOp |-> IF hist.e.overlap /\ hist.e.c # c
                                      THEN hist.e.req.op ELSE "none"]]
        /\ UNCHANGED <<phase, client, dal_set, pong, served, last, untouched>>

\* The store applies the awaited DAL call in one step and the handler answers.
\* Kept: the request, the item id it could use, the store before it, whether the
\* other client's request was in flight, and the operation that completed while
\* this one was in flight.
Complete(c) ==
    LET req == inflight[c]
        r == Route(req, store, nextListId, nextItemId)
    IN  /\ phase = "serving"
        /\ req # NoReq
        /\ store' = r.out.store
        /\ nextListId' = r.out.nextListId
        /\ nextItemId' = r.out.nextItemId
        /\ inflight' = [inflight EXCEPT ![c] = NoReq]
        /\ hist' = [pre |-> store,
                    e |-> [c |-> c, req |-> req, newId |-> nextItemId,
                           overlap |-> \E d \in Clients \ {c} : inflight[d] # NoReq,
                           prevOp |-> IF hist.e.overlap /\ hist.e.c # c
                                      THEN hist.e.req.op ELSE "none"]]
        /\ UNCHANGED <<phase, client, dal_set, pong, served, last, untouched>>

ConcRequests ==
    {Req("create_todo_list", 0, 0, "Groceries", FALSE)}
    \cup {Req("create_todo_item", l, 0, "Milk", FALSE) : l \in 1..ConcLists}
    \cup {Req("delete_item", l, i, "", FALSE) : l \in 1..ConcLists, i \in 1..ConcItems}
    \cup {Req("set_checked_state", l, i, "", b) : l \in 1..ConcLists, i \in 1..ConcItems, b \in BOOLEAN}

Next ==
    \/ Startup
    \/ \E ok \in PongValues : PingReply(ok)
    \/ Shutdown
    \/ \E req \in Requests : Serve(req)

Spec == Init /\ [][Next]_vars

NextConc ==
    \/ Startup
    \/ \E ok \in PongValues : PingReply(ok)
    \/ Shutdown
    \/ \E c \in Clients, req \in ConcRequests : Receive(c, req)
    \/ \E c \in Clients : Complete(c)

SpecConc == Init /\ [][NextConc]_vars


\* ------------------------------------------------------ the claims (Spec)
q == last.req
pre == last.pre
ItemIdsOf(items) == {items[k].id : k \in 1..Len(items)}
AllItemIds(s) == UNION {ItemIdsOf(s[l].items) : l \in ListIds}
OthersUnchanged(l) == \A m \in ListIds \ {l} : store[m] = pre[m]
Without(items, id) == LET Keep(it) == it.id # id IN SelectSeq(items, Keep)

\* C1: a list created by POST /api/lists with name n, answered with id X, and
\* fetched by GET /api/lists/X before any other operation on X, is answered 200
\* with id X, name n and no items.
C1_CreateThenGet ==
    (q.op = "get_list" /\ untouched[q.list_id] # "") =>
        /\ last.status = 200
        /\ last.body = [kind |-> "list", id |-> q.list_id,
                        name |-> untouched[q.list_id], items |-> <<>>]

C1_Witness ==
    /\ q.op = "get_list"
    /\ untouched[q.list_id] = "Chores"
    /\ last.status = 200

\* C2: DELETE /api/lists/{list_id} always answers 200 with {success: b}, b true
\* exactly when the list existed and this call removed it; deleting the same
\* list again right after a successful deletion answers success = false.
C2_Always ==
    q.op = "delete_list" =>
        /\ last.status = 200
        /\ last.body = [kind |-> "dict", success |-> pre[q.list_id].exists]
        /\ ~store[q.list_id].exists
        /\ OthersUnchanged(q.list_id)

C2_Twice ==
    (/\ q.op = "delete_list"
     /\ last.body = [kind |-> "dict", success |-> TRUE]
     /\ last'.req = last.req
     /\ last' # last) =>
        /\ last'.status = 200
        /\ last'.body = [kind |-> "dict", success |-> FALSE]

\* C2: every DELETE /api/lists/{list_id} answers 200 with {success: b}, b telling
\* whether this call removed the list, and a repeated deletion answers false.
C2_DeleteList == []C2_Always /\ [][C2_Twice]_vars

C2_Witness ==
    /\ q.op = "delete_list"
    /\ last.body = [kind |-> "dict", success |-> FALSE]
    /\ q.list_id < nextListId

\* C3: POST /api/lists/L/items with label s on an existing list L answers 201
\* with the stored list: the previous items, unchanged and in order, followed by
\* one new item with a fresh id, label s and checked = false.
C3_CreateItem ==
    (q.op = "create_todo_item" /\ pre[q.list_id].exists) =>
        LET old == pre[q.list_id].items
            n == Len(old)
        IN  /\ last.status = 201
            /\ last.body.kind = "list"
            /\ last.body = ToDoList(q.list_id, store[q.list_id])
            /\ last.body.name = pre[q.list_id].name
            /\ Len(last.body.items) = n + 1
            /\ SubSeq(last.body.items, 1, n) = old
            /\ last.body.items[n + 1].label = q.text
            /\ last.body.items[n + 1].checked = FALSE
            /\ last.body.items[n + 1].id \notin AllItemIds(pre)
            /\ OthersUnchanged(q.list_id)

C3_Witness ==
    /\ q.op = "create_todo_item"
    /\ Len(pre[q.list_id].items) = 2
    /\ pre[q.list_id].items[1].checked
    /\ last.status = 201

\* C4: PATCH /api/lists/L/checked_state naming an item id that is not in the
\* existing list L answers 404 and leaves the store as it was.
C4_CheckedUnknownItem ==
    (/\ q.op = "set_checked_state"
     /\ pre[q.list_id].exists
     /\ ~HasItem(pre[q.list_id].items, q.item_id)) =>
        /\ last.status = 404
        /\ store = pre

C4_Witness ==
    /\ q.op = "set_checked_state"
    /\ pre[q.list_id].exists
    /\ Len(pre[q.list_id].items) = 2
    /\ ~HasItem(pre[q.list_id].items, q.item_id)
    /\ last.status = 404

\* C5: DELETE /api/lists/L/items/i for an item i of an existing list L answers
\* 200 with the stored list: the previous items without i, the others unchanged
\* and in the same order; no other list changes.
C5_DeleteItem ==
    (/\ q.op = "delete_item"
     /\ pre[q.list_id].exists
     /\ HasItem(pre[q.list_id].items, q.item_id)) =>
        /\ last.status = 200
        /\ last.body = ToDoList(q.list_id, store[q.list_id])
        /\ store[q.list_id].exists
        /\ store[q.list_id].name = pre[q.list_id].name
        /\ store[q.list_id].items = Without(pre[q.list_id].items, q.item_id)
        /\ Len(store[q.list_id].items) = Len(pre[q.list_id].items) - 1
        /\ OthersUnchanged(q.list_id)

C5_Witness ==
    /\ q.op = "delete_item"
    /\ pre[q.list_id].exists
    /\ Len(pre[q.list_id].items) = 3
    /\ pre[q.list_id].items[2].id = q.item_id
    /\ last.status = 200

\* C6: GET /api/lists/{list_id} for an id that matches no stored list answers 404.
C6_GetAbsent404 ==
    (q.op = "get_list" /\ ~pre[q.list_id].exists) => last.status = 404

\* C7: DELETE /api/lists/{list_id}/items/{item_id} answers 404 and leaves the
\* store as it was when the list does not exist or holds no item with that id;
\* deleting the same item again right after a successful deletion answers 404.
C7_Always ==
    (/\ q.op = "delete_item"
     /\ \/ ~pre[q.list_id].exists
        \/ ~HasItem(pre[q.list_id].items, q.item_id)) =>
        /\ last.status = 404
        /\ store = pre

C7_Twice ==
    (/\ q.op = "delete_item"
     /\ last.status = 200
     /\ last'.req = last.req
     /\ last' # last) =>
        /\ last'.status = 404
        /\ store' = store

\* C7: every DELETE of an item whose list or item is absent answers 404 and
\* changes nothing, also when the item was deleted by the request just before.
C7_DeleteItemNotFound == []C7_Always /\ [][C7_Twice]_vars

C7_Witness ==
    /\ q.op = "delete_item"
    /\ pre[q.list_id].exists
    /\ Len(pre[q.list_id].items) >= 1
    /\ q.item_id < nextItemId
    /\ q.item_id \notin AllItemIds(pre)
    /\ last.status = 404

\* C8: POST /api/lists/{list_id}/items for a list id that does not exist answers
\* 404 and leaves the store as it was.
C8_CreateItemNoList ==
    (q.op = "create_todo_item" /\ ~pre[q.list_id].exists) =>
        /\ last.status = 404
        /\ store = pre

C8_Witness ==
    /\ q.op = "create_todo_item"
    /\ ~pre[q.list_id].exists
    /\ \E m \in ListIds : pre[m].exists
    /\ last.status = 404

\* C9: no handler has run and app.todo_dal is not set unless the client was
\* opened and the ping answered ok = 1; a ping answered otherwise aborts startup
\* and the application never serves; the client is closed only once serving has
\* ended.
C9_Lifecycle ==
    /\ (served \/ dal_set \/ phase \in {"serving", "stopped"}) =>
            (pong = 1 /\ client # "none")
    /\ (pong \notin {-1, 1}) => (phase = "aborted" /\ ~served /\ ~dal_set)
    /\ (client = "closed") =>
            (phase = "stopped" /\ \A c \in Clients : inflight[c] = NoReq)

C9_Witness ==
    /\ phase = "stopped"
    /\ client = "closed"
    /\ served

\* ------------------------------------------------- the claims (SpecConc)
ItemOps == {"create_todo_item", "delete_item", "set_checked_state"}

\* What one item operation alone makes of a list document.
RefApply(e, doc) ==
    IF ~doc.exists THEN doc
    ELSE CASE e.req.op = "create_todo_item" ->
                Doc(doc.name, Append(doc.items, Item(e.newId, e.req.text, FALSE)))
           [] e.req.op = "delete_item" ->
                Doc(doc.name, Without(doc.items, e.req.item_id))
           [] e.req.op = "set_checked_state" ->
                Doc(doc.name, [k \in 1..Len(doc.items) |->
                                  IF doc.items[k].id = e.req.item_id
                                  THEN [doc.items[k] EXCEPT !.checked = e.req.flag]
                                  ELSE doc.items[k]])

\* C10: when a request on list L completes that was in flight while the other
\* client's request on L completed just before it, the stored list is what the
\* two operations, applied one after the other in some order, make of the list
\* as it was before both.
C10_Step ==
    LET e1 == hist.e
        e2 == hist'.e
        l == e2.req.list_id
    IN  (/\ \E c \in Clients : inflight[c] # NoReq /\ inflight'[c] = NoReq
         /\ e1.c # 0 /\ e1.overlap /\ e2.c # e1.c
         /\ e1.req.op \in ItemOps /\ e2.req.op \in ItemOps
         /\ e1.req.list_id = l) =>
            \/ store'[l] = RefApply(e2, RefApply(e1, hist.pre[l]))
            \/ store'[l] = RefApply(e1, RefApply(e2, hist.pre[l]))

\* C10: no step that completes the second of two overlapping item operations
\* on one list loses the effect of either.
C10_NoLostUpdate == [][C10_Step]_vars

C10_Witness ==
    /\ hist.e.req.op = "create_todo_item"
    /\ hist.e.prevOp = "create_todo_item"
    /\ Len(store[hist.e.req.list_id].items) = 2

====
